---------------------------- MODULE Spec2Model ----------------------------
(***************************************************************************)
(* Model of backend/processor.py (class VideoProcessor) and of the way     *)
(* backend/main.py drives it.                                              *)
(*                                                                         *)
(* One VideoProcessor object is modelled.  Its coroutines (process_async,  *)
(* render_from_segments and the stages they call) are cut at their await   *)
(* points: every action below is the code that runs between two awaits,    *)
(* so cancel() -- which main.py calls from another task -- can interleave  *)
(* exactly where the event loop can run it.  External ffmpeg processes and *)
(* the VAD executor thread are environment actions.                        *)
(*                                                                         *)
(* Units: interval times are tenths of a second (0.2 s == 2); progress is  *)
(* tenths of a percent, which is what _emit_status keeps                   *)
(* (int(progress * 10) / 10.0); out_time and the probed duration are whole *)
(* seconds, and so is the VAD wall clock.                                  *)
(***************************************************************************)
EXTENDS Integers, Sequences, FiniteSets, TLC

(***************************************************************************)
(* Bounds of the model                                                     *)
(***************************************************************************)
MaxCalls == 2        \* calls of process_async / render_from_segments
MaxLines == 2        \* lines read from ffmpeg's progress pipe per extraction
MaxOutTime == 3      \* largest out_time value (seconds) a line carries
MaxDuration == 2     \* largest probed duration (seconds)
MaxPolls == 2        \* estimated-progress polls while the VAD is running
MaxElapsed == 5      \* largest VAD wall clock reading (seconds)
EventWindow == 2     \* how many of the latest status messages are kept
MaxFailures == 2     \* ffmpeg processes that fail by themselves, per call
MaxUnlinkFailures == 1  \* deletions that fail in one cleanup
LongSegs == 21       \* number of speech intervals of the long workload
MaxPoint == 3        \* largest interval bound (tenths of a second) of the enumerated lists
MaxLen == 3          \* longest enumerated interval list
MaxSample == 2       \* largest absolute sample value of an enumerated WAV file
MaxSamples == 3      \* most samples in an enumerated WAV file
MaxRate == 4         \* largest sample rate of an enumerated WAV file
MaxPps == 2          \* largest points_per_second asked for
MaxMediaTime == 9    \* largest out_time (seconds) of the enumerated progress lines
MaxMediaDuration == 7  \* largest duration (seconds) they are measured against

(***************************************************************************)
(* Program constants                                                       *)
(***************************************************************************)
MinGap == 2          \* min_gap = 0.2 s, default of _merge_timestamps
VadFloor == 5        \* max(total_duration / 50.0, 5.0): the 5 s floor
VadRatio == 50       \* total_duration / 50.0

PollCeiling == 471   \* 30 + 0.95 * 18 = 47.1: the cap of the estimated VAD progress

None == 0            \* current_proc is None; a process is named by its index in procs

Max(a, b) == IF a >= b THEN a ELSE b

Ival(s, e) == [start |-> s, end |-> e]

(***************************************************************************)
(* _clamp, for a value given as the fraction num/den (den > 0) and the     *)
(* bounds lo = 0, hi = hiNum/hiDen: the result as a pair <<num, den>>.     *)
(***************************************************************************)
\* _clamp without its upper bound
clamp_unbounded_above(num, den, hiNum, hiDen) ==
    IF num < 0 THEN <<0, 1>> ELSE <<num, den>>

clamp(num, den, hiNum, hiDen) ==
    IF num < 0 THEN <<0, 1>>
    ELSE IF num * hiDen > hiNum * den THEN <<hiNum, hiDen>>
    ELSE <<num, den>>

(***************************************************************************)
(* _emit_status: progress_val = int(progress * 10) / 10.0, here for a      *)
(* progress given as base + (num/den) * span, in tenths of a percent.      *)
(***************************************************************************)
Ev(step, tenths) == [step |-> step, progress |-> tenths]

\* the status callback receives msg.  Kept of the messages of a call: the
\* latest ones (win), how many had step "error" (errors), and how many
\* reported less progress than the message before them (dips; an "error"
\* message, which always reports 0, is not counted)
NoEvents == [win |-> <<>>, errors |-> 0, dips |-> 0]

Emit(evs, msg) ==
    [win |-> IF Len(evs.win) < EventWindow THEN Append(evs.win, msg)
             ELSE Append(Tail(evs.win), msg),
     errors |-> evs.errors + (IF msg.step = "error" THEN 1 ELSE 0),
     dips |-> IF /\ msg.step # "error"
                 /\ evs.win # <<>>
                 /\ msg.progress < evs.win[Len(evs.win)].progress
              THEN 1 ELSE evs.dips]

EmitTenths(base, num, den, span) == base * 10 + (num * span * 10) \div den

\* the audio progress rounded to the nearest tenth instead of cut to a tenth
AudioProgressRounded(t, d) ==
    LET f == clamp(t, d, 1, 1) IN (2 * f[1] * 200 + f[2]) \div (2 * f[2])

\* _extract_audio_with_progress: fraction = _clamp(t / d, 0, 1); progress = fraction * 20
AudioProgress(t, d) ==
    LET f == clamp(t, d, 1, 1) IN EmitTenths(0, f[1], f[2], 20)

\* _detect_voice_with_progress: fraction = _clamp(elapsed / est, 0, 0.95); 30 + fraction * 18
\* (30 + 0.95 * 18 is 47.099999999999994 in binary floating point: int(.. * 10) is 470)
EstimatedVadTime(d) == Max(d \div VadRatio, VadFloor)

\* the estimate with the fraction clamped to [0, 1] instead of [0, 0.95]
VadProgressUncapped(secs, d) ==
    LET f == clamp(secs, EstimatedVadTime(d), 1, 1)
    IN  EmitTenths(30, f[1], f[2], 18)

VadProgress(secs, d) ==
    LET f == clamp(secs, EstimatedVadTime(d), 95, 100)
    IN  IF f = <<95, 100>> THEN 470 ELSE EmitTenths(30, f[1], f[2], 18)

\* _render_video_with_progress: fraction = (i + 1) / n; progress = 50 + fraction * 40
SegProgress(done, n) == EmitTenths(50, done, n, 40)

(***************************************************************************)
(* _merge_timestamps: list.sort(key=start) is stable; then one sweep.      *)
(***************************************************************************)
RECURSIVE InsertByStart(_, _)
InsertByStart(x, s) ==
    IF s = <<>> THEN <<x>>
    ELSE IF s[Len(s)].start <= x.start THEN Append(s, x)
    ELSE Append(InsertByStart(x, SubSeq(s, 1, Len(s) - 1)), s[Len(s)])

RECURSIVE SortByStart(_)
SortByStart(s) ==
    IF s = <<>> THEN <<>>
    ELSE InsertByStart(s[Len(s)], SortByStart(SubSeq(s, 1, Len(s) - 1)))

\* the comparison of the sweep with the start of the current interval in the
\* place of its end
StartsWithinGapOfStart(start, end, min_gap) == start + min_gap < end

\* next_ts['start'] < current['end'] + min_gap, in IEEE-754 doubles, for times
\* that are whole tenths of a second and min_gap = 0.2: the sum is rounded,
\* and for the ends below (0.1 + 0.2 = 0.30000000000000004, 0.4 + 0.2 =
\* 0.6000000000000001, ...) it comes out above the double nearest to the
\* exact sum, so that a start exactly min_gap after the end compares less
GapSumRoundsUp == {1, 4, 21, 22, 26, 27, 31, 32, 36, 37, 44, 49, 54, 59, 64, 69, 74}

StartsWithinGap(start, end, min_gap) ==
    \/ start < end + min_gap
    \/ start = end + min_gap /\ end \in GapSumRoundsUp

RECURSIVE MergeSweep(_, _, _, _)
MergeSweep(rest, current, merged, min_gap) ==
    IF rest = <<>> THEN Append(merged, current)
    ELSE LET next_ts == Head(rest) IN
         IF StartsWithinGap(next_ts.start, current.end, min_gap)
         THEN MergeSweep(Tail(rest),
                         [current EXCEPT !.end = Max(current.end, next_ts.end)],
                         merged, min_gap)
         ELSE MergeSweep(Tail(rest), next_ts, Append(merged, current), min_gap)

\* _merge_timestamps without the merged.append(current) that follows the loop
merge_timestamps_unfinished(timestamps, min_gap) ==
    IF timestamps = <<>> THEN <<>>
    ELSE LET sorted == SortByStart(timestamps)
             all == MergeSweep(Tail(sorted), Head(sorted), <<>>, min_gap)
         IN  SubSeq(all, 1, Len(all) - 1)

merge_timestamps(timestamps, min_gap) ==
    IF timestamps = <<>> THEN <<>>
    ELSE LET sorted == SortByStart(timestamps)
         IN  MergeSweep(Tail(sorted), Head(sorted), <<>>, min_gap)

(***************************************************************************)
(* The renderer's FAILSAFE pass over the interval list.                    *)
(***************************************************************************)
\* the pass without the clamp of start to last_end
RECURSIVE SafeSweepNoClamp(_, _, _)
SafeSweepNoClamp(rest, last_end, safe) ==
    IF rest = <<>> THEN safe
    ELSE LET ts == Head(rest)
         IN  IF ts.end <= ts.start
             THEN SafeSweepNoClamp(Tail(rest), last_end, safe)
             ELSE SafeSweepNoClamp(Tail(rest), ts.end, Append(safe, Ival(ts.start, ts.end)))

\* keeps the intervals as they are, empty ones dropped
SafeTimestampsNoClamp(timestamps) == SafeSweepNoClamp(timestamps, 0, <<>>)

RECURSIVE SafeSweep(_, _, _)
SafeSweep(rest, last_end, safe) ==
    IF rest = <<>> THEN safe
    ELSE LET ts == Head(rest)
             start == IF ts.start < last_end THEN last_end ELSE ts.start
         IN  IF ts.end <= start
             THEN SafeSweep(Tail(rest), last_end, safe)
             ELSE SafeSweep(Tail(rest), ts.end, Append(safe, Ival(start, ts.end)))

SafeTimestamps(timestamps) == SafeSweep(timestamps, 0, <<>>)

(***************************************************************************)
(* Inputs                                                                  *)
(***************************************************************************)
\* what get_speech_timestamps may return (before _merge_timestamps)
RawDetections ==
    { <<>>,
      <<Ival(0, 10), Ival(11, 20)>>,
      <<Ival(50, 60), Ival(0, 20), Ival(10, 30)>> }

\* what a client may post to /render
SegmentInputs ==
    { <<>>,
      <<Ival(10, 10)>>,
      <<Ival(0, 50), Ival(30, 80)>>,
      <<Ival(0, 10), Ival(20, 30), Ival(40, 50)>> }

\* a long video: LongSegs stretches of speech of half a second, a second apart
LongList == [k \in 1 .. LongSegs |-> Ival(10 * k, 10 * k + 5)]

Detected(load) == IF load = "long" THEN {LongList} ELSE RawDetections
Posted(load) == IF load = "long" THEN {LongList} ELSE SegmentInputs

\* the sets of files whose deletion the file system may refuse in one cleanup
Refused(files) ==
    { {pick[k] : k \in DOMAIN pick} \ {0} :
          pick \in [1 .. MaxUnlinkFailures -> files \cup {0}] }

\* spontaneous non-zero exits the environment may produce in one call
FailureBudget(load) == IF load = "long" THEN 1 ELSE MaxFailures

Durations == 0 .. MaxDuration

\* a line of ffmpeg's -progress stream, by what the reading loop does with it
ProgressLines ==
    { [kind |-> k, t |-> 0] : k \in {"other", "na", "nocolon", "badnum"} }
    \cup { [kind |-> "time", t |-> t] : t \in 0 .. MaxOutTime }

\* out_time values that are N/A or not a valid HH:MM:SS.fraction timestamp
Malformed == {"na", "nocolon", "badnum"}

\* the long workload's ffmpeg reports well-formed, non-decreasing out_time
LinesOf(load) ==
    IF load = "long"
    THEN {[kind |-> "other", t |-> 0], [kind |-> "time", t |-> MaxOutTime]}
    ELSE ProgressLines

\* parse_ffmpeg_time: three ':'-separated parts -> seconds; otherwise 0.0;
\* int()/float() raise ValueError on a part that is not a number
parse_ffmpeg_time(line) ==
    CASE line.kind = "time"    -> [ok |-> TRUE, secs |-> line.t]
      [] line.kind = "nocolon" -> [ok |-> TRUE, secs |-> 0]
      [] OTHER                 -> [ok |-> FALSE, secs |-> 0]

(***************************************************************************)
(* State                                                                   *)
(***************************************************************************)
VARIABLES
    \* fields of the VideoProcessor object (__init__)
    cancelled,          \* self.cancelled
    current_proc,       \* self.current_proc: None or an index into procs
    segments,           \* self.segments
    completion_event,   \* self.completion_event.is_set()
    final_output,       \* self.final_output: "None", "copy" or "processed"
    \* the one coroutine driving the object
    pc,                 \* the await point it is suspended at ("idle": no call running)
    call,               \* the running (or last) call: kind and auto_render
    total_duration,     \* local of process_async
    safe_timestamps,    \* local of _render_video_with_progress
    i,                  \* loop index of the per-segment loop (0-based)
    segment_files,      \* local list of segment files, as 1-based segment numbers
    proc,               \* local proc of the stage
    output_file,        \* value _render_video_with_progress returned
    vad_future,         \* "none", "running", "done", "failed"
    vad_result,         \* what _run_vad returned
    flag_at_done,       \* self.cancelled was set when the executor thread finished
    elapsed,            \* time.time() - start_time at the last poll (seconds)
    \* environment
    workload,           \* which interval lists the detector returns and clients post
    procs,              \* the external processes of this call (and one kept from before)
    temp_files,         \* segment numbers whose seg_NNNN.mp4 this call has left in the temp dir
    unlink_failed,      \* the cleanup of the render that just returned had an unlink() refused
    concat_list,        \* what this call wrote to the concat list file
    \* observation
    events,             \* what the status callback received in this call (see Emit)
    outcome,            \* how the last call ended
    exc,                \* the message of the exception it raised
    calls,              \* number of calls started
    setCount,           \* number of completion_event.set() calls
    nlines,             \* progress lines read in this extraction
    npolls,             \* polls of the VAD future in this detection
    line_read,          \* the N/A or malformed out_time line read in the latest step ("none": none)
    \* the functions of the module applied on their own
    fpc,                \* "none", or what has been applied to the input so far
    given,              \* an interval list handed to a function
    timestamps,         \* the caller's list object that held it, as it is now
    mergedOnce,         \* _merge_timestamps(given)
    mergedTwice,        \* _merge_timestamps(_merge_timestamps(given))
    kept,               \* what the renderer's safety pass keeps of given
    wav,                \* the audio artifact get_waveform_data reads, and its argument
    peaks,              \* what get_waveform_data returned
    media,              \* an out_time read from ffmpeg and the probed duration
    reported            \* progress of the status message sent for it (tenths of a percent)

objVars == <<cancelled, current_proc, segments, completion_event, final_output>>
coVars == <<pc, call, total_duration, safe_timestamps, i, segment_files, proc,
            output_file, vad_future, vad_result,
            flag_at_done, elapsed>>
envVars == <<procs, temp_files, unlink_failed, concat_list>>
obsVars == <<events, outcome, exc, calls, setCount, nlines, npolls>>
waveVars == <<wav, peaks>>
progVars == <<media, reported>>
fnVars == <<fpc, given, timestamps, mergedOnce, mergedTwice, kept, waveVars, progVars>>
vars == <<objVars, coVars, envVars, obsVars, workload, line_read, fnVars>>

\* a call: which coroutine, its arguments, and what held when it was made
\* (was self.cancelled set, had the previous call paused for review)
NewCall(kind, auto_render, arg) ==
    [kind |-> kind, auto_render |-> auto_render, arg |-> arg,
     pre_cancelled |-> cancelled, resumed |-> (outcome = "paused")]

NoCall == [kind |-> "none", auto_render |-> FALSE, arg |-> <<>>,
           pre_cancelled |-> FALSE, resumed |-> FALSE]

ObjectCreated ==
    /\ cancelled = FALSE
    /\ current_proc = None
    /\ segments = <<>>
    /\ completion_event = FALSE
    /\ final_output = "None"
    /\ pc = "idle"
    /\ call = NoCall
    /\ total_duration = 0
    /\ safe_timestamps = <<>>
    /\ i = 0
    /\ segment_files = <<>>
    /\ proc = None
    /\ output_file = "None"
    /\ vad_future = "none"
    /\ vad_result = <<>>
    /\ flag_at_done = FALSE
    /\ elapsed = 0
    /\ procs = <<>>
    /\ temp_files = {}
    /\ unlink_failed = FALSE
    /\ concat_list = <<>>
    /\ events = NoEvents
    /\ outcome = "none"
    /\ exc = "none"
    /\ calls = 0
    /\ setCount = 0
    /\ nlines = 0
    /\ npolls = 0
    /\ line_read = "none"

\* the audio artifact is not there (and nothing is asked of it)
NoWav == [file |-> "missing", sample_rate |-> 1, data |-> <<>>, points_per_second |-> 1]

\* no progress line is looked at on its own
NoMedia == [t |-> 0, d |-> 1]

\* no function is being applied on its own
NoFunction ==
    /\ fpc = "none"
    /\ given = <<>>
    /\ timestamps = <<>>
    /\ mergedOnce = <<>>
    /\ mergedTwice = <<>>
    /\ kept = <<>>
    /\ wav = NoWav
    /\ peaks = <<>>
    /\ media = NoMedia
    /\ reported = 0

Init == workload = "short" /\ ObjectCreated /\ NoFunction

\* the same object, given a video in which many separate stretches of speech are found
InitLong == workload = "long" /\ ObjectCreated /\ NoFunction

(***************************************************************************)
(* Helpers shared by the actions                                           *)
(***************************************************************************)
\* asyncio.create_subprocess_exec: the child is forked before the coroutine
\* first yields; atCancel records self.cancelled at that moment
NewProc(kind, seg) ==
    [kind |-> kind, seg |-> seg, st |-> "live", rc |-> 0, term |-> FALSE,
     atCancel |-> cancelled, old |-> FALSE]

\* Process.terminate() on a process that is still running
Terminated(ps, p) == [ps EXCEPT ![p].term = TRUE]

\* main.py: except RuntimeError as e: if "Cancelled" in str(e)
IsCancelMsg(msg) == msg \in {"Cancelled", "Cancelled by user"}

\* An exception leaves the running call.  process_async catches it, emits
\* an "error" status and re-raises; render_from_segments has no handler.
Raise(kind, evs, msg) ==
    /\ events' = IF kind = "process_async" THEN Emit(evs, Ev("error", 0)) ELSE evs
    /\ outcome' = IF IsCancelMsg(msg) THEN "cancelled" ELSE "failed"
    /\ exc' = msg
    /\ pc' = "idle"

\* a local of the coroutine after this step: the frame of a call that an
\* exception has left is gone
Surviving(local) == IF pc' = "idle" THEN 0 ELSE local

\* _render_video_with_progress returned path; the caller emits its last status
Return(kind, evs, path) ==
    /\ events' = Emit(evs, Ev(IF kind = "process_async" THEN "rendering" ELSE "complete", 1000))
    /\ output_file' = path
    /\ outcome' = "running"
    /\ exc' = "none"
    /\ pc' = "final"

\* The processes of earlier calls a new call starts with: the one
\* self.current_proc still holds (a failed or cancelled audio extraction
\* leaves its handle there) and any that is still running.  Of such a
\* process only whether it still runs is followed: nothing reads its return
\* code, and cancel() reaches it only through terminate() in try/except.
OldProc(p) ==
    [kind |-> "old", seg |-> 0, st |-> p.st, rc |-> 0,
     term |-> FALSE, atCancel |-> FALSE, old |-> TRUE]

RECURSIVE KeptFrom(_, _, _)
KeptFrom(ps, cp, k) ==
    IF k > Len(ps) THEN <<>>
    ELSE (IF k = cp \/ ps[k].st = "live" THEN <<OldProc(ps[k])>> ELSE <<>>)
         \o KeptFrom(ps, cp, k + 1)

KeptHandle(ps, cp) ==
    IF cp = None THEN None
    ELSE Cardinality({k \in 1 .. cp : k = cp \/ ps[k].st = "live"})

\* a new call: its locals are fresh, and so is what is recorded about it
FreshLocals ==
    /\ total_duration' = 0
    /\ vad_future' = "none"
    /\ vad_result' = <<>>
    /\ flag_at_done' = FALSE
    /\ elapsed' = 0
    /\ concat_list' = <<>>
    /\ temp_files' = {}
    /\ unlink_failed' = FALSE
    /\ proc' = None
    /\ nlines' = 0
    /\ npolls' = 0
    /\ line_read' = "none"

\* top of the while loop of _extract_audio_with_progress, cp being self.current_proc
AudioLoopTop(cp) ==
    IF cancelled
    THEN IF cp # None /\ procs[cp].st = "live"
         THEN /\ procs' = Terminated(procs, cp)
              /\ Raise(call.kind, events, "Cancelled by user")
         ELSE \* terminate() on a process asyncio has already reaped may raise
              /\ procs' = procs
              /\ \E lookupError \in BOOLEAN :
                     Raise(call.kind, events,
                           IF lookupError THEN "ProcessLookupError" ELSE "Cancelled by user")
    ELSE /\ pc' = "ae_read"
         /\ UNCHANGED <<events, outcome, exc, procs>>

\* _render_video_with_progress without its "if not timestamps:" branch
RenderBodyNoCopy(kind, evs, ts) ==
    IF cancelled
    THEN /\ Raise(kind, evs, "Cancelled")
         /\ safe_timestamps' = <<>>
         /\ i' = 0
         /\ segment_files' = <<>>
         /\ output_file' = "None"
    ELSE /\ safe_timestamps' = SafeTimestamps(ts)
         /\ i' = 0
         /\ segment_files' = <<>>
         /\ output_file' = "None"
         /\ events' = Emit(evs, Ev("rendering", 520))
         /\ outcome' = "running"
         /\ exc' = "none"
         /\ pc' = "rn_loop"

\* _render_video_with_progress from its first line to its first await
RenderBody(kind, evs, ts) ==
    IF cancelled
    THEN /\ Raise(kind, evs, "Cancelled")
         /\ safe_timestamps' = <<>>
         /\ i' = 0
         /\ segment_files' = <<>>
         /\ output_file' = "None"
    ELSE IF ts = <<>>
    THEN /\ Return(kind, evs, "copy")
         /\ safe_timestamps' = <<>>
         /\ i' = 0
         /\ segment_files' = <<>>
    ELSE /\ safe_timestamps' = SafeTimestamps(ts)
         /\ i' = 0
         /\ segment_files' = <<>>
         /\ output_file' = "None"
         /\ events' = Emit(evs, Ev("rendering", 520))
         /\ outcome' = "running"
         /\ exc' = "none"
         /\ pc' = "rn_loop"

\* the per-segment loop from the top of iteration ii to its next await, and,
\* when the loop is over, the code down to the "Joining segments" status
SegLoopTop(ii, files) ==
    /\ i' = ii
    /\ IF ii < Len(safe_timestamps)
       THEN IF cancelled
            THEN /\ Raise(call.kind, events, "Cancelled by user")
                 /\ segment_files' = files
                 /\ UNCHANGED <<procs, proc, current_proc, concat_list>>
            ELSE /\ segment_files' = Append(files, ii + 1)
                 /\ procs' = Append(procs, NewProc("segment", ii + 1))
                 /\ proc' = Len(procs) + 1
                 /\ pc' = "rn_seg_spawned"
                 /\ UNCHANGED <<events, outcome, exc, current_proc, concat_list>>
       ELSE /\ current_proc' = None
            /\ segment_files' = files
            /\ UNCHANGED <<procs, proc>>
            /\ IF files = <<>>
               THEN /\ Raise(call.kind, events, "All segments failed to extract")
                    /\ UNCHANGED concat_list
               ELSE /\ concat_list' = files
                    /\ events' = Emit(events, Ev("rendering", 920))
                    /\ pc' = "rn_join"
                    /\ UNCHANGED <<outcome, exc>>

(***************************************************************************)
(* cancel(), callable from any other task at any await point               *)
(***************************************************************************)
cancel ==
    /\ UNCHANGED <<workload, fnVars>>
    /\ line_read' = "none"
    /\ cancelled' = TRUE
    /\ procs' = IF current_proc # None /\ procs[current_proc].st = "live"
                THEN Terminated(procs, current_proc)
                ELSE procs      \* terminate() raised and was caught, or no handle
    /\ UNCHANGED <<current_proc, segments, completion_event, final_output>>
    /\ UNCHANGED <<coVars, temp_files, unlink_failed, concat_list, obsVars>>

(***************************************************************************)
(* process_async                                                           *)
(***************************************************************************)
\* from the call to the await in _emit_status("initializing", 0, ...)
process_async(auto_render) ==
    /\ pc = "idle"
    /\ calls < MaxCalls
    /\ UNCHANGED <<workload, fnVars>>
    /\ call' = NewCall("process_async", auto_render, <<>>)
    /\ calls' = calls + 1
    /\ cancelled' = FALSE
    /\ events' = Emit(NoEvents, Ev("initializing", 0))
    /\ outcome' = "running"
    /\ exc' = "none"
    /\ pc' = "pa_init"
    /\ procs' = KeptFrom(procs, current_proc, 1)
    /\ current_proc' = KeptHandle(procs, current_proc)
    /\ FreshLocals
    /\ safe_timestamps' = <<>>
    /\ i' = 0
    /\ segment_files' = <<>>
    /\ output_file' = "None"
    /\ UNCHANGED <<segments, completion_event, final_output, setCount>>

\* the cancellation check, ffmpeg.probe, and the spawn of the audio extraction
StartAudioExtraction ==
    /\ pc = "pa_init"
    /\ UNCHANGED <<workload, fnVars, line_read>>
    /\ IF cancelled
       THEN /\ Raise(call.kind, events, "Cancelled")
            /\ UNCHANGED <<total_duration, procs, proc>>
       ELSE \E probeError \in BOOLEAN, d \in Durations :
              IF probeError
              THEN /\ Raise(call.kind, events, "ffmpeg.Error")
                   /\ UNCHANGED <<total_duration, procs, proc>>
              ELSE /\ total_duration' = d
                   /\ procs' = Append(procs, NewProc("audio", 0))
                   /\ proc' = Len(procs) + 1
                   /\ pc' = "ae_spawned"
                   /\ UNCHANGED <<events, outcome, exc>>
    /\ UNCHANGED <<objVars, call, safe_timestamps, i, segment_files, output_file,
                   vad_future, vad_result, flag_at_done, elapsed, temp_files,
                   unlink_failed, concat_list,
                   calls, setCount, nlines, npolls>>

\* create_subprocess_exec returned: self.current_proc = proc, first loop test
AudioSpawned ==
    /\ pc = "ae_spawned"
    /\ UNCHANGED <<workload, fnVars, line_read>>
    /\ current_proc' = proc
    /\ AudioLoopTop(proc)
    /\ UNCHANGED <<cancelled, segments, completion_event, final_output>>
    /\ total_duration' = Surviving(total_duration)
    /\ UNCHANGED <<call, safe_timestamps, i, segment_files, proc,
                   output_file, vad_future, vad_result, flag_at_done, elapsed, temp_files, unlink_failed,
                   concat_list, calls, setCount, nlines, npolls>>

\* proc.stdout.readline() returned
AudioReadLine ==
    /\ pc = "ae_read"
    /\ UNCHANGED <<workload, fnVars>>
    /\ \/ \* a line of the progress stream
          /\ nlines < MaxLines
          /\ \E line \in LinesOf(workload) :
               /\ line_read' = IF line.kind \in Malformed THEN line.kind ELSE "none"
               /\ IF line.kind \in {"other", "na"}
                  THEN AudioLoopTop(current_proc)
                  ELSE LET parsed == parse_ffmpeg_time(line) IN
                       IF ~parsed.ok
                       THEN /\ Raise(call.kind, events, "ValueError")
                            /\ UNCHANGED procs
                       ELSE IF total_duration > 0
                       THEN /\ events' = Emit(events,
                                   Ev("audio_extraction", AudioProgress(parsed.secs, total_duration)))
                            /\ pc' = "ae_emitted"
                            /\ UNCHANGED <<outcome, exc, procs>>
                       ELSE AudioLoopTop(current_proc)
          /\ nlines' = Surviving(nlines + 1)
          /\ UNCHANGED current_proc
       \/ \* end of file: the child has exited; wait(), then the return code
          /\ procs[proc].st = "exited"
          /\ UNCHANGED procs
          /\ nlines' = 0
          /\ line_read' = "none"
          /\ IF current_proc # None /\ procs[current_proc].rc # 0
             THEN /\ Raise(call.kind, events, "Audio extraction failed")
                  /\ UNCHANGED current_proc
             ELSE /\ current_proc' = None
                  /\ events' = Emit(events, Ev("audio_extraction", 200))
                  /\ pc' = "pa_audio_done"
                  /\ UNCHANGED <<outcome, exc>>
    /\ UNCHANGED <<cancelled, segments, completion_event, final_output>>
    /\ total_duration' = Surviving(total_duration)
    /\ UNCHANGED <<call, safe_timestamps, i, segment_files, proc,
                   output_file, vad_future, vad_result, flag_at_done, elapsed, temp_files, unlink_failed,
                   concat_list, calls, setCount, npolls>>

\* _emit_status of a progress line returned: next loop test
AudioEmitted ==
    /\ pc = "ae_emitted"
    /\ UNCHANGED <<workload, fnVars>>
    /\ AudioLoopTop(current_proc)
    /\ line_read' = "none"
    /\ total_duration' = Surviving(total_duration)
    /\ nlines' = Surviving(nlines)
    /\ UNCHANGED <<objVars, call, safe_timestamps, i, segment_files,
                   proc, output_file, vad_future, vad_result, flag_at_done, elapsed, temp_files, unlink_failed,
                   concat_list, calls, setCount, npolls>>

\* _detect_voice_with_progress: the check and the "Loading VAD model" status
DetectStart ==
    /\ pc = "pa_audio_done"
    /\ UNCHANGED <<workload, fnVars, line_read>>
    /\ IF cancelled
       THEN Raise(call.kind, events, "Cancelled")
       ELSE /\ events' = Emit(events, Ev("vad_analysis", 220))
            /\ pc' = "vad_load"
            /\ UNCHANGED <<outcome, exc>>
    /\ total_duration' = Surviving(total_duration)
    /\ UNCHANGED <<objVars, call, safe_timestamps, i, segment_files,
                   proc, output_file, vad_future, vad_result, flag_at_done, elapsed, envVars,
                   calls, setCount, nlines, npolls>>

\* run_in_executor(_load_model) returned or raised
ModelLoaded ==
    /\ pc = "vad_load"
    /\ UNCHANGED <<workload, fnVars, line_read>>
    /\ \E loaded \in BOOLEAN :
         IF loaded
         THEN /\ events' = Emit(events, Ev("vad_analysis", 300))
              /\ pc' = "vad_start"
              /\ UNCHANGED <<outcome, exc>>
         ELSE Raise(call.kind, events, "Failed to load VAD model")
    /\ total_duration' = Surviving(total_duration)
    /\ UNCHANGED <<objVars, call, safe_timestamps, i, segment_files,
                   proc, output_file, vad_future, vad_result, flag_at_done, elapsed, envVars,
                   calls, setCount, nlines, npolls>>

\* run_in_executor(_run_vad) is submitted; first pass of the polling loop
VadStart ==
    /\ pc = "vad_start"
    /\ UNCHANGED <<workload, fnVars, line_read>>
    /\ vad_future' = "running"
    /\ elapsed' = 0
    /\ npolls' = 1
    /\ IF cancelled
       THEN Raise(call.kind, events, "Cancelled by user")
       ELSE /\ events' = Emit(events, Ev("vad_analysis", VadProgress(0, total_duration)))
            /\ pc' = "vad_poll"
            /\ UNCHANGED <<outcome, exc>>
    /\ total_duration' = Surviving(total_duration)
    /\ UNCHANGED <<objVars, call, safe_timestamps, i, segment_files,
                   proc, output_file, vad_result, flag_at_done, envVars, calls, setCount, nlines>>

\* the executor thread running _run_vad finishes
VadComplete ==
    /\ pc = "vad_poll"
    /\ UNCHANGED <<workload, fnVars, line_read>>
    /\ vad_future = "running"
    /\ \/ \E stamps \in Detected(workload) :
             /\ vad_future' = "done"
             /\ vad_result' = stamps
             /\ flag_at_done' = cancelled
       \/ /\ vad_future' = "failed"
          /\ UNCHANGED vad_result
          /\ flag_at_done' = cancelled
    /\ UNCHANGED <<objVars, pc, call, total_duration, safe_timestamps, i, segment_files,
                   proc, output_file, elapsed, envVars, obsVars>>

\* asyncio.sleep(0.5) returned: the loop test, and either another estimate
\* or the result, _merge_timestamps, self.segments and the 50% status
VadPoll ==
    /\ pc = "vad_poll"
    /\ UNCHANGED <<workload, fnVars, line_read>>
    /\ IF vad_future = "running"
       THEN IF cancelled
            THEN /\ Raise(call.kind, events, "Cancelled by user")
                 /\ total_duration' = 0
                 /\ elapsed' = 0
                 /\ npolls' = 0
                 /\ vad_future' = "none"
                 /\ vad_result' = <<>>
                 /\ flag_at_done' = FALSE
                 /\ UNCHANGED segments
            ELSE /\ npolls < MaxPolls
                 /\ npolls' = npolls + 1
                 /\ \E now \in elapsed .. MaxElapsed :
                      /\ elapsed' = now
                      /\ events' = Emit(events,
                                     Ev("vad_analysis", VadProgress(now, total_duration)))
                 /\ UNCHANGED <<segments, outcome, exc, pc, vad_future, vad_result, flag_at_done,
                                total_duration>>
       ELSE IF vad_future = "failed"
            THEN /\ Raise(call.kind, events, "VAD analysis failed")
                 /\ total_duration' = 0
                 /\ elapsed' = 0
                 /\ npolls' = 0
                 /\ vad_future' = "none"
                 /\ vad_result' = <<>>
                 /\ flag_at_done' = FALSE
                 /\ UNCHANGED segments
            ELSE \* the locals of the two finished stages are not read again
                 /\ segments' = merge_timestamps(vad_result, MinGap)
                 /\ events' = Emit(events, Ev("vad_analysis", 500))
                 /\ pc' = "pa_vad_done"
                 /\ vad_future' = "none"
                 /\ elapsed' = 0
                 /\ npolls' = 0
                 /\ total_duration' = 0
                 /\ flag_at_done' = FALSE
                 /\ UNCHANGED <<outcome, exc, vad_result>>
    /\ UNCHANGED <<cancelled, current_proc, completion_event, final_output>>
    /\ UNCHANGED <<call, safe_timestamps, i, segment_files, proc,
                   output_file, envVars, calls, setCount, nlines>>

\* AfterAnalysis without the "if not auto_render: ... return None"
AfterAnalysisNoPause ==
    /\ pc = "pa_vad_done"
    /\ UNCHANGED <<workload, fnVars, line_read>>
    /\ RenderBody(call.kind, events, segments)
    /\ UNCHANGED <<objVars, call, total_duration, proc, vad_future, vad_result, flag_at_done,
                   elapsed, envVars, calls, setCount, nlines, npolls>>

\* after the 50% status: pause for review, or go on into the renderer
AfterAnalysis ==
    /\ pc = "pa_vad_done"
    /\ UNCHANGED <<workload, fnVars, line_read>>
    /\ IF ~call.auto_render
       THEN /\ events' = Emit(events, Ev("analysis_complete", 500))
            /\ outcome' = "paused"
            /\ pc' = "idle"
            /\ UNCHANGED <<exc, safe_timestamps, i, segment_files, output_file>>
       ELSE RenderBody(call.kind, events, segments)
    /\ UNCHANGED <<objVars, call, total_duration, proc, vad_future, vad_result, flag_at_done,
                   elapsed, envVars, calls, setCount, nlines, npolls>>

(***************************************************************************)
(* _render_video_with_progress                                             *)
(***************************************************************************)
\* _emit_status returned inside or before the loop: top of the next iteration
SegmentLoop ==
    /\ pc = "rn_loop"
    /\ UNCHANGED <<workload, fnVars, line_read>>
    /\ SegLoopTop(i, segment_files)
    /\ UNCHANGED <<cancelled, segments, completion_event, final_output>>
    /\ UNCHANGED <<call, total_duration, safe_timestamps, output_file, vad_future,
                   vad_result, flag_at_done, elapsed, temp_files, unlink_failed, calls, setCount, nlines, npolls>>

\* create_subprocess_exec returned: self.current_proc = proc; communicate()
SegmentSpawned ==
    /\ pc = "rn_seg_spawned"
    /\ UNCHANGED <<workload, fnVars, line_read>>
    /\ current_proc' = proc
    /\ pc' = "rn_seg_wait"
    /\ UNCHANGED <<cancelled, segments, completion_event, final_output>>
    /\ UNCHANGED <<call, total_duration, safe_timestamps, i, segment_files, proc,
                   output_file, vad_future, vad_result, flag_at_done, elapsed, envVars, obsVars>>

\* communicate() returned: skip a failed segment, or report the progress
SegmentDone ==
    /\ pc = "rn_seg_wait"
    /\ UNCHANGED <<workload, fnVars, line_read>>
    /\ procs[proc].st = "exited"
    /\ IF procs[proc].rc # 0 /\ ~cancelled
       THEN \/ /\ temp_files' = temp_files \ {i + 1}
               /\ SegLoopTop(i + 1, SubSeq(segment_files, 1, Len(segment_files) - 1))
               /\ UNCHANGED unlink_failed
            \/ /\ (i + 1) \in temp_files       \* seg_file.exists(), and unlink() raises
               /\ Raise(call.kind, events, "OSError")
               /\ UNCHANGED <<i, segment_files, procs, proc, current_proc, concat_list,
                              temp_files, unlink_failed>>
       ELSE /\ events' = Emit(events,
                   Ev("rendering", SegProgress(i + 1, Len(safe_timestamps))))
            /\ i' = i + 1
            /\ pc' = "rn_loop"
            /\ UNCHANGED <<segment_files, procs, proc, current_proc, concat_list,
                           temp_files, unlink_failed, outcome, exc>>
    /\ UNCHANGED <<cancelled, segments, completion_event, final_output>>
    /\ UNCHANGED <<call, total_duration, safe_timestamps, output_file, vad_future,
                   vad_result, flag_at_done, elapsed, calls, setCount, nlines, npolls>>

\* the "Joining segments" status returned: spawn the concat process
JoinSpawn ==
    /\ pc = "rn_join"
    /\ UNCHANGED <<workload, fnVars, line_read>>
    /\ procs' = Append(procs, NewProc("join", 0))
    /\ proc' = Len(procs) + 1
    /\ pc' = "rn_join_spawned"
    /\ UNCHANGED <<objVars, call, total_duration, safe_timestamps, i, segment_files,
                   output_file, vad_future, vad_result, flag_at_done, elapsed, temp_files, unlink_failed,
                   concat_list, obsVars>>

\* create_subprocess_exec returned: self.current_proc = proc; communicate()
JoinSpawned ==
    /\ pc = "rn_join_spawned"
    /\ UNCHANGED <<workload, fnVars, line_read>>
    /\ current_proc' = proc
    /\ pc' = "rn_join_wait"
    /\ UNCHANGED <<cancelled, segments, completion_event, final_output>>
    /\ UNCHANGED <<call, total_duration, safe_timestamps, i, segment_files, proc,
                   output_file, vad_future, vad_result, flag_at_done, elapsed, envVars, obsVars>>

\* communicate() returned: failure, or cleanup and the caller's last status
JoinDone ==
    /\ pc = "rn_join_wait"
    /\ UNCHANGED <<workload, fnVars, line_read>>
    /\ procs[proc].st = "exited"
    /\ IF procs[proc].rc # 0 /\ ~cancelled
       THEN /\ Raise(call.kind, events, "FFmpeg concat failed")
            /\ UNCHANGED <<current_proc, temp_files, unlink_failed, output_file>>
       ELSE /\ current_proc' = None
            /\ LET listed == {segment_files[k] : k \in DOMAIN segment_files}
               IN  \E kept_back \in Refused(temp_files \cap listed) :
                       \* the files whose unlink() raised into the bare except
                       /\ temp_files' = (temp_files \ listed) \cup kept_back
                       /\ unlink_failed' = (kept_back # {})
            /\ Return(call.kind, events, "processed")
    /\ UNCHANGED <<cancelled, segments, completion_event, final_output>>
    /\ UNCHANGED <<call, total_duration, safe_timestamps, i, segment_files, proc,
                   vad_future, vad_result, flag_at_done, elapsed, procs, concat_list,
                   calls, setCount, nlines, npolls>>

\* completion_event.set() without the assignment of self.final_output
FinalizeSignalOnly ==
    /\ pc = "final"
    /\ UNCHANGED <<workload, fnVars, line_read>>
    /\ UNCHANGED final_output
    /\ completion_event' = TRUE
    /\ setCount' = setCount + 1
    /\ outcome' = "done"
    /\ pc' = "idle"
    /\ UNCHANGED <<cancelled, current_proc, segments>>
    /\ unlink_failed' = FALSE
    /\ UNCHANGED <<call, total_duration, safe_timestamps, i, segment_files, proc,
                   output_file, vad_future, vad_result, flag_at_done, elapsed, procs,
                   temp_files, concat_list, events, exc, calls, nlines, npolls>>

\* the last status returned: self.final_output = ...; completion_event.set()
Finalize ==
    /\ pc = "final"
    /\ UNCHANGED <<workload, fnVars, line_read>>
    /\ final_output' = output_file
    /\ completion_event' = TRUE
    /\ setCount' = setCount + 1
    /\ outcome' = "done"
    /\ pc' = "idle"
    /\ UNCHANGED <<cancelled, current_proc, segments>>
    /\ unlink_failed' = FALSE
    /\ UNCHANGED <<call, total_duration, safe_timestamps, i, segment_files, proc,
                   output_file, vad_future, vad_result, flag_at_done, elapsed, procs,
                   temp_files, concat_list, events, exc, calls, nlines, npolls>>

(***************************************************************************)
(* render_from_segments, from the call to its first await                  *)
(***************************************************************************)
render_from_segments(segs) ==
    /\ pc = "idle"
    /\ calls < MaxCalls
    /\ UNCHANGED <<workload, fnVars>>
    /\ call' = NewCall("render_from_segments", FALSE, segs)
    /\ calls' = calls + 1
    /\ segments' = segs
    /\ procs' = KeptFrom(procs, current_proc, 1)
    /\ current_proc' = KeptHandle(procs, current_proc)
    /\ RenderBody("render_from_segments", NoEvents, segs)
    /\ FreshLocals
    /\ UNCHANGED <<cancelled, completion_event, final_output, setCount>>

(***************************************************************************)
(* Environment: an external process exits                                  *)
(***************************************************************************)
\* the processes of this call that failed without having been terminated
Failures(ps) == Cardinality({p \in DOMAIN ps : ps[p].st = "exited" /\ ps[p].rc # 0 /\ ~ps[p].term})

\* rc = 0 or not; a failed segment extraction may leave its file behind
ProcExit ==
    \E p \in DOMAIN procs, rc \in {0, 1}, wrote \in BOOLEAN :
        /\ procs[p].st = "live"
        /\ procs[p].old => (rc = 0 /\ wrote)
        /\ rc # 0 => procs[p].term \/ Failures(procs) < FailureBudget(workload)
        /\ wrote = TRUE \/ (rc # 0 /\ procs[p].kind = "segment")
        /\ procs' = [procs EXCEPT ![p].st = "exited", ![p].rc = rc,
                                  ![p].term = (procs[p].term /\ ~procs[p].old)]
        /\ temp_files' = IF procs[p].kind = "segment" /\ wrote
                         THEN temp_files \cup {procs[p].seg}
                         ELSE temp_files
        /\ line_read' = "none"
        /\ UNCHANGED <<objVars, coVars, unlink_failed, concat_list, obsVars, workload, fnVars>>

Next ==
    \/ cancel
    \/ \E auto_render \in BOOLEAN : process_async(auto_render)
    \/ StartAudioExtraction
    \/ AudioSpawned
    \/ AudioReadLine
    \/ AudioEmitted
    \/ DetectStart
    \/ ModelLoaded
    \/ VadStart
    \/ VadComplete
    \/ VadPoll
    \/ AfterAnalysis
    \/ SegmentLoop
    \/ SegmentSpawned
    \/ SegmentDone
    \/ JoinSpawn
    \/ JoinSpawned
    \/ JoinDone
    \/ Finalize
    \/ \E segs \in Posted(workload) : render_from_segments(segs)
    \/ ProcExit

Spec == Init /\ [][Next]_vars

SpecLong == InitLong /\ [][Next]_vars

(***************************************************************************)
(* _merge_timestamps and the renderer's safety pass applied on their own   *)
(* to interval lists: every list of up to MaxLen intervals with bounds in  *)
(* 0 .. MaxPoint (start and end in any order), and some longer-range ones. *)
(***************************************************************************)
Intervals == {Ival(s, e) : s, e \in 0 .. MaxPoint}

WiderLists ==
    { <<Ival(0, 20), Ival(10, 30), Ival(50, 60)>>,
      <<Ival(0, 10), Ival(11, 20)>>,
      <<Ival(0, 10), Ival(12, 20)>>,
      <<Ival(0, 1), Ival(3, 10)>>,
      <<Ival(0, 50), Ival(30, 80)>>,
      <<Ival(50, 60), Ival(0, 20), Ival(10, 30)>> }

IntervalLists ==
    WiderLists \cup UNION {[1 .. n -> Intervals] : n \in 0 .. MaxLen}

InitIntervals ==
    /\ workload = "short"
    /\ ObjectCreated
    /\ fpc = "given"
    /\ given \in IntervalLists
    /\ timestamps = given
    /\ mergedOnce = <<>>
    /\ mergedTwice = <<>>
    /\ kept = <<>>
    /\ wav = NoWav
    /\ peaks = <<>>
    /\ media = NoMedia
    /\ reported = 0

pipelineVars == <<objVars, coVars, envVars, obsVars, workload, line_read>>

\* self._merge_timestamps(given); timestamps.sort(...) orders the caller's list itself
Merge ==
    /\ fpc = "given"
    /\ mergedOnce' = merge_timestamps(given, MinGap)
    /\ timestamps' = SortByStart(timestamps)
    /\ fpc' = "merged"
    /\ UNCHANGED <<given, mergedTwice, kept, pipelineVars, waveVars, progVars>>

\* self._merge_timestamps applied to its own result
MergeAgain ==
    /\ fpc = "merged"
    /\ mergedTwice' = merge_timestamps(mergedOnce, MinGap)
    /\ mergedOnce' = SortByStart(mergedOnce)
    /\ fpc' = "merged twice"
    /\ UNCHANGED <<given, timestamps, kept, pipelineVars, waveVars, progVars>>

\* the FAILSAFE loop of _render_video_with_progress over given
SafetyPass ==
    /\ fpc = "given"
    /\ kept' = SafeTimestamps(given)
    /\ fpc' = "safe"
    /\ UNCHANGED <<given, timestamps, mergedOnce, mergedTwice, pipelineVars, waveVars, progVars>>

NextIntervals == Merge \/ MergeAgain \/ SafetyPass

SpecIntervals == InitIntervals /\ [][NextIntervals]_vars

(***************************************************************************)
(* get_waveform_data applied on its own to a WAV file.  The file the       *)
(* pipeline writes is mono (ffmpeg -ac 1), so data is one sequence of      *)
(* integer samples; the enumerated samples stay far from the int16 limits. *)
(* Peaks are in thousandths, as round(float(x), 3) leaves them.            *)
(***************************************************************************)
Abs(x) == IF x < 0 THEN 0 - x ELSE x

RECURSIVE MaxAbs(_)
MaxAbs(data) ==
    IF data = <<>> THEN 0 ELSE Max(Abs(Head(data)), MaxAbs(Tail(data)))

\* round(|x| / max_val, 3) in thousandths, or |x| itself when data was not
\* normalised because max_val is 0
Peak(x, max_val) ==
    IF max_val > 0 THEN (2000 * Abs(x) + max_val) \div (2 * max_val)
    ELSE 1000 * Abs(x)

\* np.pad to a multiple of step, reshape(-1, step), max of |.| per row
Windows(data, step) ==
    LET rows == (Len(data) + step - 1) \div step
    IN  [r \in 1 .. rows |->
            SubSeq(data, (r - 1) * step + 1,
                   IF r * step <= Len(data) THEN r * step ELSE Len(data))]

\* get_waveform_data leaving with [] where it only skips the normalisation
get_waveform_data_silence_empty(w) ==
    IF w.file = "missing" THEN <<>>
    ELSE IF w.file = "unreadable" THEN <<>>
    ELSE IF Len(w.data) = 0 THEN <<>>
    ELSE LET max_val == MaxAbs(w.data)
             step == Max(w.sample_rate \div w.points_per_second, 1)
             rows == Windows(w.data, step)
         IN  IF max_val > 0
             THEN [r \in DOMAIN rows |-> Peak(MaxAbs(rows[r]), max_val)]
             ELSE <<>>

get_waveform_data(w) ==
    IF w.file = "missing" THEN <<>>
    ELSE IF w.file = "unreadable" THEN <<>>      \* except Exception: return []
    ELSE IF Len(w.data) = 0 THEN <<>>
    ELSE LET max_val == MaxAbs(w.data)
             step == Max(w.sample_rate \div w.points_per_second, 1)
             rows == Windows(w.data, step)
         IN  [r \in DOMAIN rows |-> Peak(MaxAbs(rows[r]), max_val)]

WavFiles ==
    [file : {"missing", "unreadable", "ok"},
     sample_rate : 1 .. MaxRate,
     data : UNION {[1 .. n -> (0 - MaxSample) .. MaxSample] : n \in 0 .. MaxSamples},
     points_per_second : 1 .. MaxPps]

InitWaveform ==
    /\ workload = "short"
    /\ ObjectCreated
    /\ fpc = "wav"
    /\ given = <<>>
    /\ timestamps = <<>>
    /\ mergedOnce = <<>>
    /\ mergedTwice = <<>>
    /\ kept = <<>>
    /\ wav \in WavFiles
    /\ peaks = <<>>
    /\ media = NoMedia
    /\ reported = 0

GetWaveform ==
    /\ fpc = "wav"
    /\ peaks' = get_waveform_data(wav)
    /\ fpc' = "peaks"
    /\ UNCHANGED <<wav, given, timestamps, mergedOnce, mergedTwice, kept, pipelineVars, progVars>>

SpecWaveform == InitWaveform /\ [][GetWaveform]_vars

(***************************************************************************)
(* The measured progress of the audio extraction on its own: what the      *)
(* status callback receives for one line "out_time=<t>" when the probed    *)
(* duration is d > 0 (times in whole seconds).                             *)
(***************************************************************************)
MediaTimes == [t : 0 .. MaxMediaTime, d : 1 .. MaxMediaDuration]

InitProgress ==
    /\ workload = "short"
    /\ ObjectCreated
    /\ fpc = "line"
    /\ given = <<>>
    /\ timestamps = <<>>
    /\ mergedOnce = <<>>
    /\ mergedTwice = <<>>
    /\ kept = <<>>
    /\ wav = NoWav
    /\ peaks = <<>>
    /\ media \in MediaTimes
    /\ reported = 0

\* fraction = _clamp(current_time / total_duration, 0.0, 1.0);
\* _emit_status("audio_extraction", fraction * 20, ...)
ReportProgress ==
    /\ fpc = "line"
    /\ reported' = AudioProgress(media.t, media.d)
    /\ fpc' = "reported"
    /\ UNCHANGED <<media, given, timestamps, mergedOnce, mergedTwice, kept, waveVars, pipelineVars>>

SpecProgress == InitProgress /\ [][ReportProgress]_vars

(***************************************************************************)
(* Properties                                                              *)
(***************************************************************************)
Last(seq) == seq[Len(seq)]

\* the processes this call has spawned
Spawned == {p \in DOMAIN procs : ~procs[p].old}

CallEnded == pc = "idle" /\ call.kind # "none"

(* C1: cancellation is terminal: once cancel() has set self.cancelled, no
   later operation on the object (process_async, a stage,
   render_from_segments) sets it back to false. *)
C1_CancellationTerminal == [][cancelled => cancelled']_vars

(* C2: when cancel() was called before process_async, that process_async
   ends as cancelled and spawns no external process. *)
C2_CancelBeforeStart ==
    (call.kind = "process_async" /\ call.pre_cancelled)
        => /\ Spawned = {}
           /\ CallEnded => outcome = "cancelled"

(* C3: no external process (audio extraction, segment extraction, join) is
   spawned at a moment when self.cancelled is set. *)
C3_NoSpawnAfterCancel == \A p \in Spawned : ~procs[p].atCancel

(* C4: a call that ends because the cancellation was observed has emitted no
   status message whose step is "error". *)
C4_CancelledIsNotError ==
    (CallEnded /\ outcome = "cancelled") => events.errors = 0

\* process p was terminated on behalf of cancel(), exited non-zero, and its
\* stage has seen that return code.  (communicate() always waits for a
\* segment or join process; the audio stage reads the return code only
\* after end of file, and then fails if it is not 0.)
TerminatedAndSeenFailing(p) ==
    /\ procs[p].term
    /\ procs[p].st = "exited"
    /\ procs[p].rc # 0
    /\ procs[p].kind = "audio" => exc = "Audio extraction failed"

(* C5: cancellation has priority over failure: when an external process of
   the call has exited non-zero after cancel() asked for its termination, the
   call ends with a cancellation failure, never with a processing error and
   never normally. *)
C5_CancelBeforeFailure ==
    (CallEnded /\ \E p \in Spawned : TerminatedAndSeenFailing(p))
        => outcome = "cancelled"

(* C6: over any sequence of calls the completion signal is set exactly once,
   and the final output path, once recorded, never changes. *)
C6_CompletedOnce ==
    [][/\ final_output # "None" => final_output' = final_output
       /\ setCount' <= 1]_vars

(* C7: in a run that ends neither in error nor cancelled, the progress of
   the status messages never decreases from one message to the next. *)
C7_ProgressMonotone ==
    (CallEnded /\ outcome \in {"done", "paused"}) => events.dips = 0

(* C8: a call that fails for another reason than cancellation has emitted
   exactly one "error" status message and leaves the final output path and
   the completion signal unset. *)
C8_FailureReportedOnce ==
    (CallEnded /\ outcome = "failed")
        => /\ events.errors = 1
           /\ final_output = "None"
           /\ ~completion_event

(* C9: pause and resume.  process_async(auto_render = false) ends right after
   the "analysis_complete" status with no segment or join process spawned,
   the merged detection stored in self.segments, and final output and
   completion signal untouched (so unset unless an earlier render of the
   same object has completed);
   render_from_segments(list) stores the list in self.segments and goes
   straight to rendering: no audio extraction process, no detection, and
   only "rendering"/"complete" status messages. *)
C9_PauseAndResume ==
    /\ [](outcome = "paused" =>
            /\ call.kind = "process_async" /\ ~call.auto_render
            /\ Last(events.win) = Ev("analysis_complete", 500)
            /\ \A p \in Spawned : procs[p].kind = "audio"
            /\ segments = merge_timestamps(vad_result, MinGap)
            /\ setCount = 0 => (final_output = "None" /\ ~completion_event))
    /\ [](call.kind = "render_from_segments" =>
            /\ segments = call.arg
            /\ \A p \in Spawned : procs[p].kind \in {"segment", "join"}
            /\ vad_future = "none" /\ vad_result = <<>>
            /\ \A k \in DOMAIN events.win :
                   events.win[k].step \in {"rendering", "complete"})
    /\ [][(call'.kind = "process_async" /\ ~call'.auto_render)
            => UNCHANGED <<final_output, completion_event>>]_vars

\* a review was resumed with a non-empty list and rendered to the end
C9_Witness ==
    /\ call.kind = "render_from_segments"
    /\ call.resumed
    /\ outcome = "done"
    /\ final_output = "processed"

\* the segment numbers, in order, whose extraction exited with return code 0
Succeeded ==
    LET segProcs == SelectSeq(procs, LAMBDA r : ~r.old /\ r.kind = "segment"
                                               /\ r.st = "exited" /\ r.rc = 0)
    IN  [k \in DOMAIN segProcs |-> segProcs[k].seg]

(* C10: best-effort segments: whenever a join process has been spawned, the
   concat list holds exactly the segments whose extraction succeeded, in
   interval order (so it is not empty); a call that has no successful
   segment when its loop ends spawns no join. *)
C10_JoinListIsSuccesses ==
    (\E p \in Spawned : procs[p].kind = "join")
        => concat_list = Succeeded /\ concat_list # <<>>

\* the external processes of the object that have not exited yet
Live == {p \in DOMAIN procs : procs[p].st = "live"}

(* C11: at every instant at most one external process spawned by the run is
   live, the calls being made one after the other (cancel() interleaving
   anywhere). *)
C11_OneLiveProcess == Cardinality(Live) <= 1

\* every interval of the list has end > start
WellFormed(list) == \A k \in DOMAIN list : list[k].end > list[k].start

(* C12: _merge_timestamps is idempotent for the fixed gap threshold: for every
   list x of intervals with end > start, merge(merge(x)) = merge(x). *)
C12_MergeIdempotent ==
    (fpc = "merged twice" /\ WellFormed(given)) => mergedTwice = mergedOnce

\* a list with two intervals that merge into one was merged, and merged again
C12_Witness ==
    /\ fpc = "merged twice"
    /\ WellFormed(given)
    /\ Len(given) = 3
    /\ Len(mergedOnce) = 2

\* adjacent intervals of the list do not overlap
NonOverlapping(list) ==
    \A k \in 1 .. Len(list) - 1 : list[k].end <= list[k + 1].start

(* C13: for every input list the output of _merge_timestamps has no more
   intervals than the input, and every adjacent output pair satisfies
   out[i].end <= out[i+1].start. *)
C13_MergeShrinksAndSeparates ==
    fpc = "merged" => /\ Len(mergedOnce) <= Len(given)
                      /\ NonOverlapping(mergedOnce)

\* an unsorted list with an overlap was merged into two intervals
C13_Witness ==
    /\ fpc = "merged"
    /\ Len(given) = 3
    /\ ~NonOverlapping(given)
    /\ given[1].start > given[2].start
    /\ Len(mergedOnce) = 2

\* the list is ordered by start
SortedByStart(list) ==
    \A k \in 1 .. Len(list) - 1 : list[k].start <= list[k + 1].start

\* The rule as the claim words it, over a list already ordered by start: the
\* next interval is absorbed exactly when its start < current end + threshold
\* (the merged end being the maximum of the ends), and otherwise opens a new
\* output interval.
RECURSIVE AbsorbRule(_, _, _)
AbsorbRule(rest, current, out) ==
    IF rest = <<>> THEN Append(out, current)
    ELSE IF Head(rest).start < current.end + MinGap
         THEN AbsorbRule(Tail(rest),
                         Ival(current.start, Max(current.end, Head(rest).end)), out)
         ELSE AbsorbRule(Tail(rest), Head(rest), Append(out, current))

(* C14: _merge_timestamps returns the intervals sorted by start, an interval
   being absorbed into the current one exactly when its start is strictly
   less than the current end plus the gap threshold (merged end = maximum of
   the ends) and otherwise starting a new output interval; empty input gives
   empty output; with threshold 0.2, [{0,2},{1,3},{5,6}] gives [{0,3},{5,6}]
   and [{0,1},{1.1,2}] gives [{0,2}]. *)
C14_MergeRule ==
    fpc = "merged" =>
        /\ SortedByStart(mergedOnce)
        /\ given = <<>> => mergedOnce = <<>>
        /\ given # <<>> =>
              LET sorted == SortByStart(given)
              IN  mergedOnce = AbsorbRule(Tail(sorted), Head(sorted), <<>>)
        /\ given = <<Ival(0, 20), Ival(10, 30), Ival(50, 60)>>
              => mergedOnce = <<Ival(0, 30), Ival(50, 60)>>
        /\ given = <<Ival(0, 10), Ival(11, 20)>> => mergedOnce = <<Ival(0, 20)>>

\* every kept interval is non-empty and starts no earlier than the one before ends
Disjoint(list) ==
    /\ \A k \in DOMAIN list : list[k].start < list[k].end
    /\ \A k \in 1 .. Len(list) - 1 : list[k].end <= list[k + 1].start

\* what the pass does with the first k intervals: the kept list and its last end
RECURSIVE KeptOfPrefix(_, _)
KeptOfPrefix(list, k) ==
    IF k = 0 THEN <<>>
    ELSE LET before == KeptOfPrefix(list, k - 1)
             last_end == IF before = <<>> THEN 0 ELSE before[Len(before)].end
             start == Max(list[k].start, last_end)
         IN  IF list[k].end <= start THEN before
             ELSE Append(before, Ival(start, list[k].end))

(* C15: the renderer's safety pass, for every interval list (ordered or not,
   overlapping or not), clamps each start to at least the previous kept end
   and drops the intervals whose end <= clamped start; the kept list is
   strictly increasing, pairwise disjoint and has no empty interval;
   [{0,5},{3,8}] gives [{0,5},{5,8}]. *)
C15_SafetyPass ==
    fpc = "safe" =>
        /\ kept = KeptOfPrefix(given, Len(given))
        /\ Disjoint(kept)
        /\ \A k \in 1 .. Len(kept) - 1 : kept[k].start < kept[k + 1].start
        /\ given = <<Ival(0, 50), Ival(30, 80)>> => kept = <<Ival(0, 50), Ival(50, 80)>>

\* an unordered, overlapping list lost an interval and had a start clamped
C15_Witness ==
    /\ fpc = "safe"
    /\ Len(given) = 3
    /\ ~SortedByStart(given)
    /\ Len(kept) = 2
    /\ \E k \in DOMAIN kept : \A j \in DOMAIN given : given[j].start # kept[k].start

\* no segment extraction and no join has been spawned by this call
NoRenderProcess == \A p \in Spawned : procs[p].kind = "audio"

(* C16: rendering an empty interval list while the run is not cancelled
   copies the source to the output location and returns that path (so the
   call completes with it) without spawning any external process: for
   render_from_segments([]) as for process_async(auto_render) after a
   detection that found nothing. *)
C16_EmptyListCopies ==
    /\ [](/\ call.kind = "render_from_segments"
           /\ call.arg = <<>>
           /\ ~call.pre_cancelled
           => /\ Spawned = {}
              /\ output_file = "copy"
              /\ outcome \in {"running", "done"})
    /\ [][/\ pc = "pa_vad_done" /\ pc' # pc
           /\ call.auto_render /\ segments = <<>> /\ ~cancelled
           => /\ pc' = "final"
              /\ output_file' = "copy"
              /\ procs' = procs]_vars
    /\ [](output_file = "copy" /\ CallEnded
           => /\ outcome = "done"
              /\ final_output = "copy"
              /\ completion_event
              /\ NoRenderProcess)

\* a full run whose detection found no speech has completed with the copy
C16_Witness ==
    /\ call.kind = "process_async"
    /\ segments = <<>>
    /\ outcome = "done"
    /\ final_output = "copy"

\* the file is there, readable, has samples, and all of them are zero
Silent(w) ==
    /\ w.file = "ok"
    /\ w.data # <<>>
    /\ \A k \in DOMAIN w.data : w.data[k] = 0

(* C17: get_waveform_data on an existing audio artifact whose samples are all
   zero returns an empty sequence. *)
C17_SilentWaveformEmpty == (fpc = "peaks" /\ Silent(wav)) => peaks = <<>>

\* int(sample_rate / points_per_second), at least 1
StepOf(w) ==
    IF w.sample_rate < w.points_per_second THEN 1
    ELSE w.sample_rate \div w.points_per_second

(* C17 as amended: on an existing audio artifact whose samples are all zero
   get_waveform_data returns one 0.0 per window of step samples (the last
   window padded), so a non-empty sequence of zeros; the empty sequence is
   what it returns exactly for a missing or unreadable file and for a file
   without samples. *)
C17_SilentWaveformZeros ==
    fpc = "peaks" =>
        /\ Silent(wav) =>
              /\ \A k \in DOMAIN peaks : peaks[k] = 0
              /\ (Len(peaks) - 1) * StepOf(wav) < Len(wav.data)
              /\ Len(wav.data) <= Len(peaks) * StepOf(wav)
        /\ peaks = <<>> <=> (wav.file # "ok" \/ wav.data = <<>>)

\* a silent file of three samples was sampled with a step of two
C17_Witness ==
    /\ fpc = "peaks"
    /\ Silent(wav)
    /\ Len(wav.data) = 3
    /\ peaks = <<0, 0>>

\* The mapping of the claim, lo + clamp(t/d, 0, 1) * (hi - lo), as the
\* fraction <<numerator, denominator>> of a percent
Mapped(lo, hi, t, d) ==
    IF t >= d THEN <<hi, 1>>
    ELSE IF t <= 0 THEN <<lo, 1>>
    ELSE <<lo * d + t * (hi - lo), d>>

(* C18: for an observed media time t and a duration d > 0 the reported
   progress is lo + clamp(t/d, 0, 1) * (hi - lo) (74 for lo = 50, hi = 98 and
   fraction 0.5); audio extraction uses lo = 0, hi = 20. *)
C18_ProgressMapping ==
    /\ Mapped(50, 98, 1, 2) = <<74 * 2, 2>>
    /\ fpc = "reported" =>
          LET m == Mapped(0, 20, media.t, media.d)
          IN  reported * m[2] = 10 * m[1]

(* C18 as amended: the reported progress is that mapped value cut down to one
   decimal place: in tenths of a percent, the largest whole number of tenths
   not above lo + clamp(t/d, 0, 1) * (hi - lo), for lo = 0, hi = 20. *)
C18_ProgressMappingCut ==
    /\ Mapped(50, 98, 1, 2) = <<74 * 2, 2>>
    /\ fpc = "reported" =>
          LET m == Mapped(0, 20, media.t, media.d)
          IN  /\ reported * m[2] <= 10 * m[1]
              /\ 10 * m[1] < (reported + 1) * m[2]

\* two thirds of the duration were reported as 13.3 percent
C18_Witness ==
    /\ fpc = "reported"
    /\ media = [t |-> 2, d |-> 3]
    /\ reported = 133

(* C19: while the progress stream is read, an out_time value that is N/A or
   malformed is ignored: reading it sends no status message and never makes
   the stage or the run fail. *)
C19_MalformedIgnored ==
    [][line_read' \in Malformed
         => /\ exc' # "ValueError"
            /\ cancelled \/ events' = events]_vars

\* the step sends terminate() to a process that was running
TerminatesSome ==
    \E p \in DOMAIN procs :
        p \in DOMAIN procs' /\ procs[p].st = "live" /\ ~procs[p].term /\ procs'[p].term

(* C20: cancel() is safe in every state of the run: in no state does it
   raise into or otherwise disturb the call in progress (it only sets the
   flag and terminates the recorded process), and after completion it leaves
   the final output path, the completion signal and the stored segments
   unchanged and terminates no process. *)
C20_CancelSafe ==
    [][/\ (~cancelled /\ cancelled')
          => UNCHANGED <<current_proc, segments, completion_event, final_output,
                         pc, outcome, exc, events>>
       /\ (calls' = calls /\ pc = "idle" /\ outcome = "done")
          => /\ UNCHANGED <<segments, completion_event, final_output>>
             /\ ~TerminatesSome]_vars

(* C21: a cancelled run never completes: when self.cancelled is set at any
   point before _render_video_with_progress returns (also while the last
   segment extraction or the join process is running), the run emits no
   status with progress 100, records no final output path and does not set
   the completion signal. *)
C21_CancelledNeverCompletes ==
    [][(cancelled /\ pc \notin {"idle", "final"})
         => /\ pc' # "final"
            /\ UNCHANGED <<final_output, completion_event>>]_vars

\* self.cancelled was set while the detection was outstanding, and the
\* detection stage has not ended yet
CancelledWhileDetecting ==
    /\ pc = "vad_poll"
    /\ \/ cancelled /\ vad_future = "running"
       \/ flag_at_done

(* C22: when self.cancelled becomes set while the speech detection is
   outstanding, the detection stage ends with a cancellation failure in
   every interleaving, also when the detection finishes between the setting
   of the flag and the next poll: the run does not go on to the
   "vad_analysis" 50% status or to "analysis_complete". *)
C22_CancelledDetectionFails ==
    [][CancelledWhileDetecting
         => \/ pc' = "vad_poll"
            \/ pc' = "idle" /\ outcome' = "cancelled"]_vars

\* _extract_audio_with_progress is executing
InAudioStage == pc \in {"ae_spawned", "ae_read", "ae_emitted"}

(* C23: during audio extraction, once self.cancelled is set the stage reads
   no further line of the child's progress stream: it sends no
   "audio_extraction" status after the flag was set, the child is terminated
   (or has exited), and the stage raises a cancellation failure. *)
C23_CancelledExtractionStops ==
    [][(InAudioStage /\ cancelled)
         => \/ UNCHANGED <<pc, events, nlines>>
            \/ /\ pc' = "idle"
               /\ outcome' = "cancelled"
               /\ nlines' = 0
               /\ procs'[proc].term \/ procs'[proc].st = "exited"]_vars

\* the stages a status message may carry right after one of stage s, by the
\* state machine initializing -> audio_extraction -> vad_analysis ->
\* (analysis_complete | rendering) -> complete, "error" being reachable
\* from every stage that is not terminal
StagesAfter(s) ==
    CASE s = "initializing"      -> {"audio_extraction", "error"}
      [] s = "audio_extraction"  -> {"audio_extraction", "vad_analysis", "error"}
      [] s = "vad_analysis"      -> {"vad_analysis", "analysis_complete", "rendering", "error"}
      [] s = "analysis_complete" -> {"rendering", "complete", "error"}
      [] s = "rendering"         -> {"rendering", "complete", "error"}
      [] OTHER                   -> {}

\* the status messages kept of the call follow the state machine
StagesInOrder ==
    \A k \in 1 .. Len(events.win) - 1 :
        events.win[k + 1].step \in StagesAfter(events.win[k].step)

(* C24: the stages of the status messages follow the state machine
   initializing -> audio_extraction -> vad_analysis -> (analysis_complete |
   rendering) -> complete; a successful render ends with a "complete"
   message on the automatic and on the resumed path; after a terminal
   message no other message is sent for the call. *)
C24_StageMachine ==
    /\ StagesInOrder
    /\ (CallEnded /\ outcome = "done") => Last(events.win).step = "complete"

(***************************************************************************)
(* Scheduling: the event loop runs a coroutine that is ready, an external  *)
(* process that was started exits, and the executor thread finishes.       *)
(* Nothing obliges a client to call cancel() or to start another call.     *)
(***************************************************************************)
CoroutineStep ==
    \/ StartAudioExtraction
    \/ AudioSpawned
    \/ AudioReadLine
    \/ AudioEmitted
    \/ DetectStart
    \/ ModelLoaded
    \/ VadStart
    \/ VadPoll
    \/ AfterAnalysis
    \/ SegmentLoop
    \/ SegmentSpawned
    \/ SegmentDone
    \/ JoinSpawn
    \/ JoinSpawned
    \/ JoinDone
    \/ Finalize

SpecFair ==
    /\ Init
    /\ [][Next]_vars
    /\ WF_vars(CoroutineStep)
    /\ WF_vars(ProcExit)
    /\ WF_vars(VadComplete)

\* render_from_segments is resuming a run that had paused for review
ResumedRender == call.kind = "render_from_segments" /\ call.resumed

(* C25: forward progress or clean failure in manual-render mode: every
   external process eventually exiting, each render_from_segments made after
   a paused analysis eventually sets the completion signal or delivers a
   terminal "error"/"cancelled" status; the waiter is never left blocked. *)
C25_RenderReleasesWaiter ==
    ResumedRender ~> (completion_event \/ events.errors > 0)

\* the progress window of a stage, in tenths of a percent
StageWindow(step) ==
    CASE step = "audio_extraction" -> [lo |-> 0, hi |-> 200]
      [] step = "vad_analysis"     -> [lo |-> 200, hi |-> 500]
      [] step = "rendering"        -> [lo |-> 500, hi |-> 1000]
      [] OTHER                     -> [lo |-> 0, hi |-> 1000]

(* C26: every status message sent has its progress in [0, 100] and in the
   window of its stage: "audio_extraction" in [0, 20], "vad_analysis" in
   [20, 50], "rendering" in [50, 100]. *)
C26_ProgressInWindow ==
    \A k \in DOMAIN events.win :
        LET msg == events.win[k] IN
            /\ StageWindow(msg.step).lo <= msg.progress
            /\ msg.progress <= StageWindow(msg.step).hi

\* a progress line whose out_time is past the probed duration was reported
C26_Witness ==
    /\ pc = "ae_emitted"
    /\ nlines > 0
    /\ Last(events.win) = Ev("audio_extraction", 200)
    /\ total_duration < MaxOutTime

\* _detect_voice_with_progress is executing
InDetection == pc \in {"vad_load", "vad_start", "vad_poll"}

\* the status callback has received ("vad_analysis", 50) in this call
HalfWayReported ==
    \E k \in DOMAIN events.win : events.win[k] = Ev("vad_analysis", 500)

(* C27: the estimated progress sent while the detection is outstanding is
   capped at 95% of its sub-range: every status sent from the polling loop
   has progress at most 30 + 0.95 * 18 = 47.1, and ("vad_analysis", 50) is
   sent only after the detection result has been obtained. *)
C27_EstimateCapped ==
    /\ [](InDetection =>
            /\ ~HalfWayReported
            /\ \A k \in DOMAIN events.win :
                   events.win[k].step = "vad_analysis"
                       => events.win[k].progress <= PollCeiling)
    /\ [][(pc # "pa_vad_done" /\ pc' = "pa_vad_done")
            => /\ vad_future = "done"
               /\ segments' = merge_timestamps(vad_result, MinGap)
               /\ Last(events'.win) = Ev("vad_analysis", 500)]_vars

\* a poll whose clock reading is past the estimated detection time
C27_Witness ==
    /\ pc = "vad_poll"
    /\ vad_future = "running"
    /\ elapsed >= EstimatedVadTime(total_duration)
    /\ Last(events.win).step = "vad_analysis"
    /\ Last(events.win).progress = 470

(* C28: _merge_timestamps is pure: after the call the caller's list holds
   the same intervals in the same order as when it was handed over (and the
   result is a function of the arguments alone). *)
C28_MergeLeavesInput ==
    fpc \in {"merged", "merged twice"} => timestamps = given

\* _render_video_with_progress has returned the path of a joined video
RenderReturned == pc = "final" /\ output_file = "processed"

(* C29: after rendering returns successfully with a non-empty interval
   list, no per-segment file created by that render remains, those of
   skipped failed segments and those of joined segments alike, unless its
   deletion failed; and a failure to delete never fails the run. *)
C29_TempFilesCleaned ==
    /\ (RenderReturned /\ ~unlink_failed) => temp_files = {}
    /\ exc # "OSError"

(* C30: in every reachable state the completion signal is set if and only
   if a final output path has been recorded: no state another task can
   observe has one without the other. *)
C30_SignalIffOutput ==
    completion_event <=> final_output # "None"

\* a call has just recorded its output and set the signal
C30_Witness ==
    /\ pc = "idle"
    /\ outcome = "done"
    /\ completion_event
    /\ final_output \in {"copy", "processed"}

\* no stage of a run is executing: before the first stage, between two
\* stages, or after the call has returned or raised
NoStageExecuting ==
    pc \in {"idle", "pa_init", "pa_audio_done", "pa_vad_done", "final"}

(* C31: the recorded process handle never outlives its stage: whenever no
   stage is executing (a stage returned, failed or was cancelled),
   self.current_proc is None, so that a later cancel() has no exited
   process to call terminate() on. *)
C31_HandleClearedAfterStage ==
    NoStageExecuting => current_proc = None

=============================================================================
